---- MODULE Spec2Model ----
(***************************************************************************)
(* Model of Simulation (limbo_old/exp/gaitopt/simulation.cpp): the terrain *)
(* built by the constructor, the stepping loop run_conf and the per-step   *)
(* procedure with its gait controller.                                     *)
(*                                                                         *)
(* Numbers.  The clock x and the step are C++ floats, the robot position   *)
(* is a double and run_conf returns a float.  A float is modelled by an    *)
(* integer count of clock units of 1/Scale (Scale a power of two), and     *)
(* every float operation rounds its exact result to FloatMantissaBits      *)
(* significant bits, ties to even (RoundF32).  Exponent range is not       *)
(* modelled: all values stay far inside it.                                *)
(*                                                                         *)
(* Genes are multiples of 1/GeneDen.  A phase is kept as the term          *)
(*     coef * tanh(h * sin(f*pi*(x + theta))) + off                        *)
(* in units of 1/(GainDen*GeneDen) degree: coef and off are integers and   *)
(* the oscillator argument <<f, x, theta>> is kept symbolically.  Two      *)
(* equal terms are equal angles; two terms with coef = 0 are equal angles  *)
(* exactly when their off agree.                                           *)
(***************************************************************************)
EXTENDS Integers, Sequences, FiniteSets

VARIABLES
    count,      \* the constructor's argument count
    headless,   \* Simulation::headless
    nservos,    \* rob->servos().size()
    boxes,      \* Simulation::boxes, in insertion order
    ground,     \* indices of the boxes given to env->add_to_ground
    shown,      \* indices of the boxes accepted by the visitor v
    x,          \* Simulation::x, the clock, in clock units
    pos,        \* rob->pos()(0), in clock units
    servos,     \* target of every servo, a phase term
    esc,        \* what v->done() answers
    pc,         \* "idle", "loop" (inside run_conf) or "exited"
    step,       \* the latest call's argument step, in clock units
    limit,      \* run_conf's argument step_limit, 0 outside a call
    config,     \* run_conf's argument config, <<>> outside a call
    iter,       \* procedure calls begun by the latest run_conf call
    polls,      \* v->done() calls made by the latest run_conf call
    outcome,    \* how the latest run_conf call ended
    result,     \* the float it returned, <<>> when it returned none
    calls,      \* run_conf calls made on this instance
    xEntry,     \* clock when the call in progress was entered
    posEntry,   \* position when the call in progress was entered
    prev,       \* during and after the second call: summary of the first
    retLimit,   \* <<largest step_limit of a call that returned>>, or <<>>
    covered,    \* the latest call's step_limit is at most retLimit at entry
    bad         \* the latest call's arguments break run's precondition

vars == <<count, headless, nservos, boxes, ground, shown, x, pos, servos, esc, pc,
          step, limit, config, iter, polls, outcome, result, calls,
          xEntry, posEntry, prev, retLimit, covered, bad>>

----------------------------------------------------------------------------
(* Bounds of the exploration *)

MaxCount == 2       \* obstacle counts 0..MaxCount
MaxCalls == 3       \* run_conf calls per instance
MaxIter  == 6       \* iterations a call needs in exact arithmetic
FracBits == 2       \* clock units per time unit: 2^FracBits
GeneBits == 4       \* gene resolution: 2^GeneBits

Scale   == 2 ^ FracBits
GeneDen == 2 ^ GeneBits

(* Program constants *)

FloatMantissaBits == 24   \* significand of a C++ float
TailServos        == 4    \* servos().size() - 4
MirrorOffset      == 4    \* servos()[i+4]
AmpScale          == 40   \* data * 40.0f
BiasScale         == 40   \* data * 40.0f
BiasShift         == 20   \* - 20.0f
DeadbandThreshold == 5    \* a < 5.0f
FreqScale         == 2    \* data.back() * 2.0f
Saturation        == 4    \* h
GainNum           == 9    \* 1.8f = GainNum / GainDen
GainDen           == 5
BodyJoints        == 1    \* i <= 1
OuterA            == 6    \* i == 6
OuterB            == 9    \* i == 9

Min(a, b) == IF a < b THEN a ELSE b
Max(a, b) == IF a < b THEN b ELSE a
Abs(a)    == IF a < 0 THEN -a ELSE a

----------------------------------------------------------------------------
(* Single precision *)

RECURSIVE Quantum(_)
\* spacing of the floats around magnitude m >= 0, in units
Quantum(m) == IF m < 2 ^ FloatMantissaBits THEN 1 ELSE 2 * Quantum(m \div 2)

\* the float nearest to the exact value v, ties to even
RoundF32(v) ==
    LET m   == Abs(v)
        q   == Quantum(m)
        lo  == (m \div q) * q
        rem == m - lo
        r   == IF 2 * rem < q THEN lo
               ELSE IF 2 * rem > q THEN lo + q
               ELSE IF (m \div q) % 2 = 0 THEN lo ELSE lo + q
    IN  IF v < 0 THEN -r ELSE r

\* the float sum a + b
FAdd(a, b) == RoundF32(a + b)

\* the clock of a new Simulation: x is a member the constructor does not
\* assign, its declaration is in simulation.hh
ClockAtConstruction == 0

\* x = step
AdvanceFromZero(clock, s) == FAdd(0, s)

\* x += step
Advance(clock, s) == FAdd(clock, s)

\* the int step_limit converted for the comparison x < step_limit
LimF(L) == RoundF32(L * Scale)

----------------------------------------------------------------------------
(* Terrain: Simulation::add_blocks *)

\* rng(time(0)): the seed fixes every draw
Seeds == {1, 2}

\* the draws (rsize, rlocation, rlocation) made for box i under a seed
Sample(seed, i) ==
    <<2 + ((seed * i) % 5), ((seed + i) % 9) - 4, ((seed * 3 + i) % 9) - 4>>

\* a box whose b->fix() was left out
BoxNotFixed(sample) == [sample |-> sample, fixed |-> FALSE]

\* one box as add_blocks leaves it
Box(sample) == [sample |-> sample, fixed |-> TRUE]

AddBlocks(cnt, seed, hl) ==
    [boxes  |-> [i \in 1..cnt |-> Box(Sample(seed, i))],
     ground |-> 1..cnt,
     shown  |-> IF hl THEN {} ELSE 1..cnt]

----------------------------------------------------------------------------
(* Gait controller: the body of procedure's loop *)

Rest == [coef |-> 0, osc |-> <<>>, off |-> 0]

Groups(n) == n - TailServos

\* a without the deadband
AmplitudeNoDeadband(g) == g * AmpScale

\* a after the deadband, in units of 1/GeneDen degree
Amplitude(g) ==
    LET a == g * AmpScale
    IN  IF a < DeadbandThreshold * GeneDen THEN 0 ELSE a

Bias(g) == g * BiasScale - BiasShift * GeneDen

\* phase * 1.8f for the outer joints, in units of 1/(GainDen*GeneDen)
Gain(i) == IF i = OuterA \/ i = OuterB THEN GainNum ELSE GainDen

\* data is 1-based here: data.at(k) is data[k+1]
Phase(data, i, clock) ==
    LET a     == Amplitude(data[3 * i + 1])
        theta == data[3 * i + 2]
        b     == Bias(data[3 * i + 3])
        f     == data[Len(data)] * FreqScale
    IN  [coef |-> a * Gain(i),
         osc  |-> IF a = 0 THEN <<>> ELSE <<Saturation, f, clock, theta>>,
         off  |-> b * Gain(i)]

\* the set_angle calls of iteration i
SetJoint(sv, i, ph) ==
    IF i <= BodyJoints
    THEN [sv EXCEPT ![i] = ph]
    ELSE [sv EXCEPT ![i] = ph, ![i + MirrorOffset] = ph]

RECURSIVE SetGroups(_, _, _, _, _)
\* iterations i .. upto-1 of the for loop, in order
SetGroups(sv, data, clock, i, upto) ==
    IF i >= upto THEN sv
    ELSE SetGroups(SetJoint(sv, i, Phase(data, i, clock)), data, clock, i + 1, upto)

\* data.at throws in the first iteration whose three genes are not all there
Throws(data, n) == Len(data) < 3 * Groups(n)

Completed(data, n) == Min(Groups(n), Len(data) \div 3)

----------------------------------------------------------------------------
(* Inputs *)

ServoCounts == {10, 14}
Positions   == {13, 2 ^ FloatMantissaBits + 1}
Steps       == {-1, 0, 1, 2 ^ 22 + 1}
Limits      == {-1, 0, 1, 2, 3 * 2 ^ 20, 6 * 2 ^ 20, 6 * 2 ^ 20 + 2}
DeadSets    == {{2, 6}}

\* a parameter vector of length len for n servos whose groups in dead have
\* an amplitude inside the deadband
Vec(n, dead, len) ==
    [k \in 1..len |->
        LET i == (k - 1) \div 3
            r == (k - 1) % 3
        IN  IF k = 3 * Groups(n) + 1 THEN GeneDen \div 2
            ELSE IF r = 0 THEN (IF i \in dead THEN 1 ELSE GeneDen \div 2)
            ELSE IF r = 1 THEN i % 3
            ELSE (i + 1) % (GeneDen + 1)]

Configs(n) == {Vec(n, d, len) : d \in DeadSets, len \in {3 * Groups(n) + 1, 4}}

WellFormed(data, n) == Len(data) >= 3 * Groups(n) + 1

\* the call needs at most MaxIter iterations in exact arithmetic
Admissible(s, L) == s > 0 => LimF(L) - x <= MaxIter * s

NoCall == [step |-> 0, iter |-> 0, outcome |-> "none"]

----------------------------------------------------------------------------
(* Simulation::Simulation *)

Init ==
    \E hl \in BOOLEAN, n \in ServoCounts, c \in 0..MaxCount :
      \E seed \in Seeds :
        LET t == AddBlocks(c, seed, hl)
        IN  /\ count = c
            /\ headless = hl
            /\ nservos = n
            /\ boxes = t.boxes
            /\ ground = t.ground
            /\ shown = t.shown
            /\ x = ClockAtConstruction
            /\ pos = 0
            /\ servos = [j \in 0..(n - 1) |-> Rest]
            /\ esc = FALSE
            /\ pc = "idle"
            /\ step = 0
            /\ limit = 0
            /\ config = <<>>
            /\ iter = 0
            /\ polls = 0
            /\ outcome = "none"
            /\ result = <<>>
            /\ calls = 0
            /\ xEntry = 0
            /\ posEntry = 0
            /\ prev = NoCall
            /\ retLimit = <<>>
            /\ covered = FALSE
            /\ bad = FALSE

terrain == <<count, headless, nservos, boxes, ground, shown>>
args    == <<step, limit, config>>
entry   == <<calls, xEntry, posEntry, prev, covered, bad>>

\* the poll's answer is ignored
DoneIgnored == FALSE

\* if(!headless){ if(v->done()) ...
Done == ~headless /\ esc

\* pos(0), the sign lost
FitnessNotNegated(p) == RoundF32(p)

\* -pos(0), returned as a float
Fitness(p) == RoundF32(-p)

\* the user presses escape in the window
PressEscape ==
    /\ ~headless
    /\ pc # "exited"
    /\ ~esc
    /\ esc' = TRUE
    /\ UNCHANGED <<terrain, x, pos, servos, pc, args, iter, polls, outcome,
                   result, entry, retLimit>>

\* entry to run_conf
Call ==
    /\ pc = "idle"
    /\ calls < MaxCalls
    /\ \E s \in Steps, L \in Limits, d \in Configs(nservos) :
          /\ Admissible(s, L)
          /\ step' = s
          /\ limit' = L
          /\ config' = d
          /\ covered' = (retLimit # <<>> /\ L <= retLimit[1])
          /\ bad' = (~WellFormed(d, nservos) \/ s <= 0 \/ L < 0)
    /\ pc' = "loop"
    /\ iter' = 0
    /\ polls' = 0
    /\ outcome' = "running"
    /\ result' = <<>>
    /\ calls' = calls + 1
    /\ xEntry' = x
    /\ posEntry' = pos
    /\ prev' = IF calls = 1
               THEN [step |-> step, iter |-> iter, outcome |-> outcome]
               ELSE NoCall
    /\ UNCHANGED <<terrain, x, pos, servos, esc, retLimit>>

Bump(c) == Min(c + 1, MaxIter + 1)

\* one loop iteration in which v->done() is set: exit(EXIT_SUCCESS)
AbortOnEscape ==
    /\ pc = "loop"
    /\ x < LimF(limit)
    /\ Done
    /\ polls' = Bump(polls)
    /\ pc' = "exited"
    /\ outcome' = "aborted"
    /\ UNCHANGED <<terrain, x, pos, servos, esc, args, iter, result, entry,
                   retLimit>>

\* one loop iteration: the poll, then procedure(config, step)
LoopStep ==
    /\ pc = "loop"
    /\ x < LimF(limit)
    /\ ~Done
    /\ step < 0 => iter < MaxIter
    /\ polls' = IF headless THEN polls ELSE Bump(polls)
    /\ iter' = Bump(iter)
    /\ x' = Advance(x, step)
    /\ \E p \in Positions : pos' = p
    /\ servos' = SetGroups(servos, config, x', 0, Completed(config, nservos))
    /\ IF Throws(config, nservos)
       THEN /\ pc' = "idle"
            /\ outcome' = "threw"
            /\ limit' = 0
            /\ config' = <<>>
            /\ xEntry' = 0
            /\ posEntry' = 0
       ELSE /\ pc' = "loop"
            /\ outcome' = "running"
            /\ UNCHANGED <<limit, config, xEntry, posEntry>>
    /\ UNCHANGED <<terrain, esc, step, result, calls, prev, covered, bad,
                   retLimit>>

\* the loop condition fails: return -pos(0)
Return ==
    /\ pc = "loop"
    /\ ~(x < LimF(limit))
    /\ result' = <<Fitness(pos)>>
    /\ pc' = "idle"
    /\ outcome' = "returned"
    /\ retLimit' = IF retLimit = <<>> THEN <<limit>>
                   ELSE <<Max(retLimit[1], limit)>>
    /\ limit' = 0
    /\ config' = <<>>
    /\ xEntry' = 0
    /\ posEntry' = 0
    /\ UNCHANGED <<terrain, x, pos, servos, esc, step, iter, polls, calls,
                   prev, covered, bad>>

Next == PressEscape \/ Call \/ AbortOnEscape \/ LoopStep \/ Return

Spec == Init /\ [][Next]_vars

\* Headless instances on flat ground, called only with arguments that meet
\* run's precondition, whose loop nothing suspends: every iteration that can
\* run does run, and so does the return.
InitHeadless == Init /\ headless /\ count = 0

NextHeadless == (Call /\ ~bad') \/ LoopStep \/ Return

FairSpec ==
    InitHeadless /\ [][NextHeadless]_vars /\ WF_vars(LoopStep) /\ WF_vars(Return)

----------------------------------------------------------------------------
(* Properties *)

RECURSIVE FSum(_, _, _)
\* the clock after k float additions of s to c
FSum(c, s, k) == IF k = 0 THEN c ELSE FSum(FAdd(c, s), s, k - 1)

\* v is a float
Representable(v) == Abs(v) % Quantum(Abs(v)) = 0

\* the first two calls on the instance have returned, each after the same
\* number of iterations with the same step
TwoEqualRuns ==
    /\ calls = 2
    /\ outcome = "returned"
    /\ prev.outcome = "returned"
    /\ prev.step = step
    /\ prev.iter = iter
    /\ iter <= MaxIter

ProcedureReturned == pc = "loop" /\ iter >= 1 /\ ~bad

\* C2: when procedure returns, joint i and joint i+4 hold the same target
\* for every group index 2 <= i < servo count - 4.
C2_MirroredJointsAgree ==
    ProcedureReturned =>
        \A i \in 2..(nservos - 5) : servos[i] = servos[i + 4]

\* C3: a call whose vector is too short, whose step is <= 0 or whose
\* step_limit is negative fails at entry: it advances nothing and returns
\* no fitness.
C3_BadArgumentsFailFast ==
    (calls > 0 /\ bad) =>
        /\ iter = 0
        /\ result = <<>>
        /\ outcome # "returned"
        /\ pc = "loop" => (x = xEntry /\ pos = posEntry)

\* the raw amplitude gene of group i puts a = gene*40 below 5.0
InDeadband(i) == 40 * config[3 * i + 1] < 5 * GeneDen

\* b = gene*40 - 20 of group i, in units of 1/(GainDen*GeneDen) degree
BiasTerm(i) == (40 * config[3 * i + 3] - 20 * GeneDen) * GainDen

\* C4 as stated: for every group whose scaled amplitude is below 5.0 the
\* emitted phase is exactly the bias b.
C4_DeadbandGivesBias ==
    ProcedureReturned =>
        \A i \in 0..(Completed(config, nservos) - 1) :
            InDeadband(i) => servos[i] = [coef |-> 0, osc |-> <<>>, off |-> BiasTerm(i)]

\* C4 amended: for every group whose scaled amplitude is below 5.0 the
\* emitted phase does not depend on the clock, on theta or on the frequency
\* gene; it is the bias b, and 1.8*b for the outer groups 6 and 9.
C4_DeadbandGivesAmplifiedBias ==
    ProcedureReturned =>
        \A i \in 0..(Completed(config, nservos) - 1) :
            InDeadband(i) =>
                servos[i] = [coef |-> 0, osc |-> <<>>,
                             off  |-> IF i \in {6, 9} THEN (BiasTerm(i) * 9) \div 5
                                      ELSE BiasTerm(i)]

C4_Witness ==
    /\ ProcedureReturned
    /\ nservos = 14
    /\ InDeadband(6) /\ InDeadband(2)
    /\ BiasTerm(6) # 0
    /\ servos[6].off = (BiasTerm(6) * 9) \div 5
    /\ servos[2].off = BiasTerm(2)

\* C5: without a window the abort signal is never polled; with one it is
\* polled before every procedure call, a poll that sees it set ends the
\* process there and then, and a call returns one fitness or ends with none.
C5_State ==
    /\ headless => (polls = 0 /\ pc # "exited" /\ outcome # "aborted")
    /\ (~headless /\ pc = "loop") => polls = iter
    /\ pc = "exited" =>
          (~headless /\ esc /\ outcome = "aborted" /\ polls = Bump(iter))
    /\ outcome = "aborted" => pc = "exited"
    /\ outcome = "returned" => Len(result) = 1
    /\ outcome \in {"none", "running", "aborted", "threw"} => result = <<>>

C5_Step ==
    /\ pc # "exited"
    /\ (~headless /\ esc /\ pc = "loop") =>
          (x' = x /\ pos' = pos /\ servos' = servos /\ iter' = iter)
    /\ (pc = "loop" /\ pc' = "exited") => (esc /\ UNCHANGED <<x, pos, servos, iter, result>>)

C5_AbortPolling == [](C5_State) /\ [][C5_Step]_vars

C5_Witness == pc = "exited" /\ iter >= 1 /\ polls = iter + 1 /\ result = <<>>

\* C6: a call with step_limit 0 (and a positive step and a full vector) runs
\* no iteration on any instance: nothing advances and the fitness is that of
\* the position before the call.
C6_ZeroLimitRunsNothing ==
    (pc = "loop" /\ limit = 0 /\ ~bad) =>
        /\ iter = 0
        /\ x = xEntry
        /\ pos = posEntry
        /\ ~(x < LimF(limit))

\* C7 as stated: a call that returns yields exactly -pos.x.
C7_FitnessIsNegatedPosition == outcome = "returned" => result = <<-pos>>

\* C7 amended: a call that returns yields -pos.x rounded to single
\* precision (pos is a double, the result a float), which is exactly
\* -pos.x whenever that coordinate is itself a float.
C7_FitnessIsRoundedNegatedPosition ==
    outcome = "returned" =>
        /\ Len(result) = 1
        /\ Representable(result[1])
        /\ 2 * Abs(result[1] + pos) <= Quantum(Abs(pos))
        /\ Representable(pos) => result[1] = -pos

C7_Witness ==
    /\ outcome = "returned"
    /\ iter >= 1
    /\ ~Representable(pos)
    /\ result # <<-pos>>

\* C8: the instance holds exactly count obstacles, each fixed and in the
\* ground set, and no step of a run adds, removes or alters one.
C8_State ==
    /\ Len(boxes) = count
    /\ ground = 1..count
    /\ \A i \in 1..Len(boxes) : boxes[i].fixed

C8_ObstaclesFrozen == [](C8_State) /\ [][boxes' = boxes /\ ground' = ground]_vars

C8_Witness == count = 2 /\ Len(boxes) = 2 /\ outcome = "returned" /\ iter >= 1

\* C9: a headless call with step > 0 and step_limit >= 0 ends after
\* finitely many iterations.
C9_RunTerminates ==
    (pc = "loop" /\ headless /\ step > 0 /\ limit >= 0) ~> (pc = "idle")

\* C10: once a call with step_limit L has returned, a later call with a
\* step_limit <= L (and a positive step and a full vector) runs no procedure
\* and polls nothing: its fitness is that of the position it found.
C10_CoveredCallRunsNothing ==
    (pc = "loop" /\ covered /\ ~bad) =>
        /\ iter = 0
        /\ polls = 0
        /\ x = xEntry
        /\ pos = posEntry
        /\ ~(x < LimF(limit))

====
